---- MODULE Spec2Model ----
(***************************************************************************)
(* Recording-and-upload state machine of the interview page: the           *)
(* Capability Negotiator (chooseMimeType) and the Capture Session          *)
(* (startListening / stopListening and the callbacks they register), as    *)
(* written in the most defensive variant of the script.                    *)
(*                                                                         *)
(* All handlers run on one UI thread: every action below is one            *)
(* run-to-completion step between two suspension points (await of the      *)
(* device request, the encoder's stop event, the settle timer, the         *)
(* network response).                                                      *)
(***************************************************************************)
EXTENDS Naturals, Sequences, FiniteSets, TLC

(* ------------------------------ bounds -------------------------------- *)

\* startListening invocations in one behaviour (so at most that many encoders)
MaxStarts == 2

\* chunks the buffer may hold before the model stops delivering more
MaxChunks == 2

\* regenerateAnswer invocations in one behaviour
MaxRegens == 2

(* ------------------------- program constants -------------------------- *)

\* the priority list of chooseMimeType
mimeTypes ==
    << "audio/webm;codecs=opus", "audio/webm", "audio/ogg",
       "audio/mp4", "audio/mpeg", "audio/wav" >>

\* secondary fallback of the encoder construction and of the blob assembly
FallbackMime == "audio/ogg"

\* minimum asset size that is uploaded
MinBlobSize == 800

\* currentMimeType before the first negotiation (JS null)
NullMime == "<null>"

\* status texts (status.innerText)
StatusIdle         == "Idle"
StatusListening    == "Listening... Speak clearly"
StatusProcessing   == "Processing... Please wait"
StatusMicBlocked   == "Microphone blocked."
StatusNotSupported == "Recording not supported on this device."
StatusNoAudio      == "No audio detected."

\* placeholder texts of the transcript and answer fields
TextNoVoice      == "(no voice captured)"
TextNoAnswer     == "(no answer)"
TextServerError  == "(server error)"
TextNoConnect    == "Could not connect to server."
TextNoText       == "(no text)"
TextNoRegen      == "(no text to regenerate)"
TextRegenerating == "Regenerating..."

\* style.display values of the two controls
Shown  == "inline-block"
Hidden == "none"

(* --------------------------- environment ------------------------------ *)

\* sizes of the fragments the encoder may emit (0: an empty fragment)
ChunkSizes == {0, 300, 500}

\* what a selector control can be: missing from the page, or its value
SelectorAbsent == "<absent>"
InputSelector  == {SelectorAbsent, "", "es"}
OutputSelector == {SelectorAbsent, "", "fr"}

Encoders == 1..MaxStarts

(* ----------------------------- state ---------------------------------- *)

VARIABLES
    supported,        \* the formats MediaRecorder.isTypeSupported accepts
    mediaRecorder,    \* global: 0 (undefined) or the encoder it refers to
    audioChunks,      \* global: the chunk buffer
    currentMimeType,  \* global: the chosen MIME type
    status,           \* #status innerText
    startBtn,         \* #startBtn style.display
    stopBtn,          \* #stopBtn style.display
    question,         \* #question innerText
    answer,           \* #answer innerText
    tags,             \* the #detectedLang elements before #question, in document order
    pendingStarts,    \* startListening invocations suspended at getUserMedia
    startsLeft,       \* startListening invocations the user may still make
    arrivals,         \* sizes given to ondataavailable since the buffer was last cleared
    stopRequested,    \* whether stopListening ran since the last startListening
    enc,              \* the MediaRecorder objects constructed so far
    lastBlob,         \* the asset assembled most recently, and for which encoder
    request,          \* the FormData of each fetch of /interview_listen in flight
    regensLeft,       \* regenerateAnswer invocations the user may still make
    regenRequests,    \* the `text` of each fetch of /interview_regen in flight
    event             \* the handler that ran last

vars == << supported, mediaRecorder, audioChunks, currentMimeType, status,
           startBtn, stopBtn, question, answer, tags, pendingStarts, startsLeft,
           arrivals, stopRequested, enc, lastBlob, request, regensLeft,
           regenRequests, event >>

dom == << status, startBtn, stopBtn, question, answer, tags >>

\* what regenerateAnswer adds to the state
regen == << regensLeft, regenRequests >>

NoBlob == [enc |-> 0, parts |-> << >>, type |-> ""]
NoRequest == [sent |-> FALSE, filename |-> "", language |-> "", output_language |-> ""]

\* an encoder slot before `new MediaRecorder` filled it
NoEncoder == [phase |-> "none", mimeType |-> ""]

\* the handler that ran, the encoder it ran for (0: none) and how it went
Ev(op, e, how) == [op |-> op, enc |-> e, how |-> how]

\* the encoders constructed so far are 1..nEnc
nEnc == Cardinality({e \in Encoders : enc[e].phase # "none"})

\* MediaRecorder.state of encoder e ("recording" until stop() is called)
recorderState(e) == IF enc[e].phase = "recording" THEN "recording" ELSE "inactive"

(* ----------------------- Capability Negotiator ------------------------ *)

isTypeSupported(t) == t \in supported

RECURSIVE chooseFrom(_)
chooseFrom(i) ==
    IF i > Len(mimeTypes) THEN ""
    ELSE IF isTypeSupported(mimeTypes[i]) THEN mimeTypes[i]
    ELSE chooseFrom(i + 1)

\* chooseMimeType whose loop keeps the last supported candidate
RECURSIVE chooseLastFrom(_, _)
chooseLastFrom(i, found) ==
    IF i > Len(mimeTypes) THEN found
    ELSE chooseLastFrom(i + 1, IF isTypeSupported(mimeTypes[i])
                               THEN mimeTypes[i] ELSE found)

chooseMimeTypeLast == chooseLastFrom(1, "")

\* chooseMimeType that falls back to the last candidate instead of ""
chooseMimeTypeWav ==
    IF chooseFrom(1) = "" THEN mimeTypes[Len(mimeTypes)] ELSE chooseFrom(1)

chooseMimeType == chooseFrom(1)

(* ------------------------------ resetUI ------------------------------- *)

\* getElementById returns the first #detectedLang in document order; only
\* that one is removed
resetTags == IF tags = << >> THEN tags ELSE Tail(tags)

(* --------------------------- startListening --------------------------- *)

\* startListening up to its await of getUserMedia
StartListening ==
    /\ startsLeft > 0
    /\ startsLeft' = startsLeft - 1
    /\ question' = ""
    /\ answer' = ""
    /\ tags' = resetTags
    /\ audioChunks' = << >>
    /\ arrivals' = << >>
    /\ stopRequested' = FALSE
    /\ startBtn' = Hidden
    /\ stopBtn' = Shown
    /\ status' = StatusListening
    /\ pendingStarts' = pendingStarts + 1
    /\ event' = Ev("startListening", 0, "")
    /\ UNCHANGED regen
    /\ UNCHANGED << supported, mediaRecorder, currentMimeType, enc, lastBlob,
                    request >>

\* the rest of startListening once getUserMedia has rejected
GetUserMediaRejected ==
    /\ pendingStarts > 0
    /\ pendingStarts' = pendingStarts - 1
    /\ status' = StatusMicBlocked
    /\ event' = Ev("getUserMedia", 0, "rejected")
    /\ UNCHANGED regen
    /\ UNCHANGED << supported, mediaRecorder, audioChunks, currentMimeType,
                    startBtn, stopBtn, question, answer, tags, startsLeft, enc,
                    lastBlob, request, arrivals, stopRequested >>

\* a freshly constructed encoder after ondataavailable is set and start() ran
NewEncoder(mime) == [phase |-> "recording", mimeType |-> mime]

\* the rest of startListening once getUserMedia has resolved; mainOk and
\* oggOk say whether the two `new MediaRecorder` calls succeed on this device
GetUserMediaGranted(mainOk, oggOk) ==
    /\ pendingStarts > 0
    /\ pendingStarts' = pendingStarts - 1
    /\ event' = IF mainOk THEN Ev("getUserMedia", nEnc + 1, "main")
                 ELSE IF oggOk THEN Ev("getUserMedia", nEnc + 1, "ogg")
                 ELSE Ev("getUserMedia", 0, "unsupported")
    /\ IF mainOk
       THEN /\ currentMimeType' = chooseMimeType
            /\ enc' = [enc EXCEPT ![nEnc + 1] = NewEncoder(chooseMimeType)]
            /\ mediaRecorder' = nEnc + 1
            /\ status' = status
       ELSE IF oggOk
       THEN /\ currentMimeType' = FallbackMime
            /\ enc' = [enc EXCEPT ![nEnc + 1] = NewEncoder(FallbackMime)]
            /\ mediaRecorder' = nEnc + 1
            /\ status' = status
       ELSE /\ currentMimeType' = chooseMimeType
            /\ status' = StatusNotSupported
            /\ UNCHANGED << enc, mediaRecorder >>
    /\ UNCHANGED regen
    /\ UNCHANGED << supported, audioChunks, startBtn, stopBtn, question, answer,
                    tags, startsLeft, lastBlob, request, arrivals,
                    stopRequested >>

\* ondataavailable without the size test: every fragment is pushed
OnDataAvailableNoFilter(e, n) ==
    /\ enc[e].phase \in {"recording", "stopping", "settling"}
    /\ Len(arrivals) < MaxChunks
    /\ arrivals' = Append(arrivals, [enc |-> e, size |-> n])
    /\ audioChunks' = Append(audioChunks, [enc |-> e, size |-> n])
    /\ event' = Ev("ondataavailable", e, "")
    /\ UNCHANGED regen
    /\ UNCHANGED << supported, mediaRecorder, currentMimeType, dom,
                    pendingStarts, startsLeft, stopRequested, enc, lastBlob,
                    request >>

\* mediaRecorder.ondataavailable of encoder e, given a fragment of n bytes.
\* The platform delivers fragments while e records and, after stop(), until
\* the settle timer of its stop handler has expired.
OnDataAvailable(e, n) ==
    /\ enc[e].phase \in {"recording", "stopping", "settling"}
    /\ Len(arrivals) < MaxChunks
    /\ arrivals' = Append(arrivals, [enc |-> e, size |-> n])
    /\ audioChunks' = IF n > 0
                      THEN Append(audioChunks, [enc |-> e, size |-> n])
                      ELSE audioChunks
    /\ event' = Ev("ondataavailable", e, "")
    /\ UNCHANGED regen
    /\ UNCHANGED << supported, mediaRecorder, currentMimeType, dom,
                    pendingStarts, startsLeft, stopRequested, enc, lastBlob,
                    request >>

(* --------------------------- stopListening ---------------------------- *)

\* stopListening without the guard: stop() throws on a missing or inactive
\* encoder after the UI was switched to processing
StopListeningNoGuard ==
    /\ stopBtn' = Hidden
    /\ startBtn' = Shown
    /\ status' = StatusProcessing
    /\ enc' = IF mediaRecorder # 0 /\ recorderState(mediaRecorder) = "recording"
              THEN [enc EXCEPT ![mediaRecorder].phase = "stopping"]
              ELSE enc
    /\ stopRequested' = TRUE
    /\ event' = Ev("stopListening", mediaRecorder, "")
    /\ UNCHANGED regen
    /\ UNCHANGED << supported, mediaRecorder, audioChunks, currentMimeType,
                    question, answer, tags, pendingStarts, startsLeft, lastBlob,
                    request, arrivals >>

\* stopListening: the guard, and otherwise stop() and the onstop registration
StopListening ==
    /\ stopBtn' = Hidden
    /\ startBtn' = Shown
    /\ IF mediaRecorder = 0 \/ recorderState(mediaRecorder) = "inactive"
       THEN /\ status' = StatusIdle
            /\ enc' = enc
       ELSE /\ status' = StatusProcessing
            /\ enc' = [enc EXCEPT ![mediaRecorder].phase = "stopping"]
    /\ stopRequested' = TRUE
    /\ event' = Ev("stopListening", mediaRecorder, "")
    /\ UNCHANGED regen
    /\ UNCHANGED << supported, mediaRecorder, audioChunks, currentMimeType,
                    question, answer, tags, pendingStarts, startsLeft, lastBlob,
                    request, arrivals >>

\* the onstop handler run a second time: it starts over for an encoder whose
\* upload is already in flight
OnStopTwice(e) ==
    /\ enc[e].phase \in {"stopping", "uploading"}
    /\ enc' = [enc EXCEPT ![e].phase = "settling"]
    /\ event' = Ev("onstop", e, "")
    /\ UNCHANGED regen
    /\ UNCHANGED << supported, mediaRecorder, audioChunks, currentMimeType, dom,
                    pendingStarts, startsLeft, lastBlob, request, arrivals,
                    stopRequested >>

\* the stop event of encoder e reaches its onstop handler, which starts the
\* settle timer
OnStop(e) ==
    /\ enc[e].phase = "stopping"
    /\ enc' = [enc EXCEPT ![e].phase = "settling"]
    /\ event' = Ev("onstop", e, "")
    /\ UNCHANGED regen
    /\ UNCHANGED << supported, mediaRecorder, audioChunks, currentMimeType, dom,
                    pendingStarts, startsLeft, lastBlob, request, arrivals,
                    stopRequested >>

RECURSIVE blobSize(_)
blobSize(parts) ==
    IF parts = << >> THEN 0 ELSE Head(parts).size + blobSize(Tail(parts))

\* String.prototype.includes
includes(s, sub) ==
    \E i \in 1..(Len(s) + 1) :
        /\ i + Len(sub) - 1 <= Len(s)
        /\ SubSeq(s, i, i + Len(sub) - 1) = sub

\* the extension without the mpeg case: audio/mpeg is named speech.webm
extOfNoMpeg(m) ==
    LET e0 == "webm"
        e1 == IF includes(m, "ogg") THEN "ogg" ELSE e0
    IN  IF includes(m, "mp4") THEN "mp4" ELSE e1

\* the extension derived from the chosen MIME type
extOf(m) ==
    LET e0 == "webm"
        e1 == IF includes(m, "ogg") THEN "ogg" ELSE e0
        e2 == IF includes(m, "mp4") THEN "mp4" ELSE e1
    IN  IF includes(m, "mpeg") THEN "mp3" ELSE e2

\* document.getElementById(id)?.value ?? dflt : an empty value is sent
selectorValueNullish(sel, dflt) ==
    IF sel = SelectorAbsent THEN dflt ELSE sel

\* document.getElementById(id)?.value || dflt
selectorValue(sel, dflt) ==
    IF sel = SelectorAbsent \/ sel = "" THEN dflt ELSE sel

\* the onstop handler of encoder e from the end of the settle delay to its
\* return or to the fetch, where tooSmall is the outcome of its test of the
\* size of the blob it builds from the buffer
AssembleAndSend(e, blobThrows, inSel, outSel, tooSmall) ==
    LET type == IF blobThrows THEN FallbackMime ELSE currentMimeType
        blob == [enc |-> e, parts |-> audioChunks, type |-> type]
    IN
    /\ enc[e].phase = "settling"
    /\ currentMimeType' = type
    /\ lastBlob' = blob
    /\ event' = Ev("settled", e, [blobThrows |-> blobThrows,
                                  languageSelect |-> inSel,
                                  outputLanguage |-> outSel])
    /\ IF tooSmall
       THEN /\ status' = StatusNoAudio
            /\ question' = TextNoVoice
            /\ answer' = TextNoAnswer
            /\ enc' = [enc EXCEPT ![e].phase = "done"]
            /\ request' = request
       ELSE /\ enc' = [enc EXCEPT ![e].phase = "uploading"]
            /\ request' = [request EXCEPT ![e] =
                     [sent |-> TRUE,
                      filename |-> "speech." \o extOf(type),
                      language |-> selectorValue(inSel, "auto"),
                      output_language |-> selectorValue(outSel, "same")]]
            /\ UNCHANGED << status, question, answer >>
    /\ UNCHANGED regen
    /\ UNCHANGED << supported, mediaRecorder, audioChunks, startBtn, stopBtn,
                    tags, pendingStarts, startsLeft, arrivals, stopRequested >>

\* the size test written with <= : an asset of exactly 800 bytes is rejected
SettleExpiredAtMost(e, blobThrows, inSel, outSel) ==
    AssembleAndSend(e, blobThrows, inSel, outSel,
                    blobSize(audioChunks) <= MinBlobSize)

\* the handler with the test of the source; blobThrows says whether
\* `new Blob` with the chosen type throws, inSel and outSel are the two
\* language selectors
SettleExpired(e, blobThrows, inSel, outSel) ==
    AssembleAndSend(e, blobThrows, inSel, outSel,
                    blobSize(audioChunks) < MinBlobSize)

\* what the fetch of /interview_listen and res.json() can give: a rejection
\* of either, the JSON value null, or an object with any of the three fields
Responses ==
    [kind : {"fail", "null"}, question : {FALSE}, answer : {FALSE},
     detected_language : {FALSE}]
    \cup
    [kind : {"object"}, question : BOOLEAN, answer : BOOLEAN,
     detected_language : BOOLEAN]
    \cup
    \* an object whose question is a string of white space only
    [kind : {"blank"}, question : {TRUE}, answer : {FALSE},
     detected_language : {FALSE}]

\* the texts the service returns for the upload of encoder e
QuestionOf(e) == "Q" \o ToString(e)
AnswerOf(e)   == "A" \o ToString(e)
LanguageOf(e) == "L" \o ToString(e)

\* a transcript of white space only
BlankText == "  "

\* the onstop handler of encoder e from the outcome r of the fetch to its
\* end; catches says whether the fetch is wrapped in try/catch
ShowResult(e, r, catches) ==
    /\ enc[e].phase = "uploading"
    /\ request' = [request EXCEPT ![e] = NoRequest]
    /\ event' = Ev("fetch", e, r)
    /\ IF r.kind = "fail" /\ ~catches
       THEN \* the rejection leaves the handler
            /\ enc' = [enc EXCEPT ![e].phase = "crashed"]
            /\ UNCHANGED << status, question, answer, tags >>
       ELSE IF r.kind = "fail"
       THEN /\ status' = StatusIdle
            /\ question' = TextServerError
            /\ answer' = TextNoConnect
            /\ tags' = tags
            /\ enc' = [enc EXCEPT ![e].phase = "done"]
       ELSE IF r.kind = "null"
       THEN \* data.question throws: the handler ends in an unhandled rejection
            /\ enc' = [enc EXCEPT ![e].phase = "crashed"]
            /\ UNCHANGED << status, question, answer, tags >>
       ELSE /\ question' = IF r.kind = "blank" THEN BlankText
                         ELSE IF r.question THEN QuestionOf(e) ELSE TextNoText
            /\ answer' = IF r.answer THEN AnswerOf(e) ELSE TextNoAnswer
            /\ status' = StatusIdle
            /\ tags' = IF r.detected_language
                       THEN Append(tags, "Detected language: " \o LanguageOf(e))
                       ELSE tags
            /\ enc' = [enc EXCEPT ![e].phase = "done"]
    /\ UNCHANGED regen
    /\ UNCHANGED << supported, mediaRecorder, audioChunks, currentMimeType,
                    startBtn, stopBtn, pendingStarts, startsLeft, lastBlob,
                    arrivals, stopRequested >>

\* the handler without try/catch around the fetch
FetchSettledNoCatch(e, r) == ShowResult(e, r, FALSE)

FetchSettled(e, r) == ShowResult(e, r, TRUE)

(* -------------------------- regenerateAnswer -------------------------- *)

\* String.prototype.trim, for strings whose white space is the space
RECURSIVE trimStart(_)
trimStart(s) ==
    IF Len(s) > 0 /\ SubSeq(s, 1, 1) = " "
    THEN trimStart(SubSeq(s, 2, Len(s)))
    ELSE s

RECURSIVE trimEnd(_)
trimEnd(s) ==
    IF Len(s) > 0 /\ SubSeq(s, Len(s), Len(s)) = " "
    THEN trimEnd(SubSeq(s, 1, Len(s) - 1))
    ELSE s

trim(s) == trimEnd(trimStart(s))

\* what the fetch of /interview_regen and res.json() can give: a rejection
\* of either, the JSON value null, an object without answer, an object
\* whose answer is the empty string, or an object with an answer
RegenResponses == {"fail", "null", "absent", "empty", "answer"}

\* the answer the service generates for a transcript
RegenAnswerOf(text) == "R:" \o text

\* regenerateAnswer up to its return or its fetch; spoken is the text it
\* takes from the transcript field
Regenerate(spoken) ==
    /\ regensLeft > 0
    /\ regensLeft' = regensLeft - 1
    /\ IF spoken = ""
       THEN /\ answer' = TextNoRegen
            /\ regenRequests' = regenRequests
            /\ event' = Ev("regenerateAnswer", 0, "empty")
       ELSE /\ answer' = TextRegenerating
            /\ regenRequests' = Append(regenRequests, spoken)
            /\ event' = Ev("regenerateAnswer", 0, "sent")
    /\ UNCHANGED << supported, mediaRecorder, audioChunks, currentMimeType,
                    status, startBtn, stopBtn, question, tags, pendingStarts,
                    startsLeft, arrivals, stopRequested, enc, lastBlob,
                    request >>

\* regenerateAnswer without the trim: only the empty transcript is refused
RegenerateAnswerNoTrim == Regenerate(question)

RegenerateAnswer == Regenerate(trim(question))

\* the rest of regenerateAnswer once the i-th fetch in flight has settled
\* with outcome r
RegenSettled(i, r) ==
    /\ i \in 1..Len(regenRequests)
    /\ regenRequests' = SubSeq(regenRequests, 1, i - 1)
                            \o SubSeq(regenRequests, i + 1, Len(regenRequests))
    /\ answer' = CASE r \in {"fail", "null"}    -> TextServerError
                   [] r \in {"absent", "empty"} -> TextNoAnswer
                   [] OTHER                     -> RegenAnswerOf(regenRequests[i])
    /\ event' = Ev("regenFetch", 0, r)
    /\ UNCHANGED << supported, mediaRecorder, audioChunks, currentMimeType,
                    status, startBtn, stopBtn, question, tags, pendingStarts,
                    startsLeft, arrivals, stopRequested, enc, lastBlob,
                    request, regensLeft >>

\* the page as loaded, on a runtime that supports the formats in `runtime`,
\* with `starts` uses of the start control and `regens` uses of the
\* regenerate control ahead
Loaded(runtime, starts, regens) ==
    /\ supported = runtime
    /\ mediaRecorder = 0
    /\ audioChunks = << >>
    /\ currentMimeType = NullMime
    /\ status = StatusIdle
    /\ startBtn = Shown
    /\ stopBtn = Hidden
    /\ question = ""
    /\ answer = ""
    /\ tags = << >>
    /\ pendingStarts = 0
    /\ startsLeft = starts
    /\ arrivals = << >>
    /\ stopRequested = FALSE
    /\ enc = [e \in Encoders |-> NoEncoder]
    /\ lastBlob = NoBlob
    /\ request = [e \in Encoders |-> NoRequest]
    /\ regensLeft = regens
    /\ regenRequests = << >>
    /\ event = Ev("load", 0, "")

Next ==
    \/ StartListening
    \/ GetUserMediaRejected
    \/ \E mainOk, oggOk \in BOOLEAN : GetUserMediaGranted(mainOk, oggOk)
    \/ \E e \in Encoders, n \in ChunkSizes : OnDataAvailable(e, n)
    \/ StopListening
    \/ \E e \in Encoders : OnStop(e)
    \/ \E e \in Encoders, blobThrows \in BOOLEAN,
          inSel \in InputSelector, outSel \in OutputSelector :
            SettleExpired(e, blobThrows, inSel, outSel)
    \/ \E e \in Encoders, r \in Responses : FetchSettled(e, r)

\* the handlers of the capture session and of the regenerate control
NextPage ==
    \/ Next
    \/ RegenerateAnswer
    \/ \E i \in 1..MaxRegens, r \in RegenResponses : RegenSettled(i, r)

Candidates == {mimeTypes[i] : i \in 1..Len(mimeTypes)}

\* the runtime of the interleaving model: a browser that records webm and mp4
Runtimes == { {"audio/webm", "audio/mp4"} }

\* any interleaving of up to MaxStarts recording attempts
Init == \E runtime \in Runtimes : Loaded(runtime, MaxStarts, 0)
Spec == Init /\ [][Next]_vars

\* one recording attempt on every possible runtime
InitSession == \E runtime \in SUBSET Candidates : Loaded(runtime, 1, 0)
SpecSession == InitSession /\ [][Next]_vars

\* one recording attempt interleaved with uses of the regenerate control
InitPage == \E runtime \in Runtimes : Loaded(runtime, 1, MaxRegens)
SpecPage == InitPage /\ [][NextPage]_vars

(* ============================== claims ================================ *)

nonEmpty(c) == c.size > 0

\* the first candidate, in priority order, that the runtime supports
FirstSupported ==
    mimeTypes[CHOOSE i \in 1..Len(mimeTypes) :
                 /\ mimeTypes[i] \in supported
                 /\ \A j \in 1..(i - 1) : mimeTypes[j] \notin supported]

\* no handler of a stop is pending and no start awaits the device
Quiescent ==
    /\ pendingStarts = 0
    /\ \A e \in Encoders : enc[e].phase \notin {"stopping", "settling", "uploading"}

\* C1: on every runtime that supports at least one of the six candidates,
\* chooseMimeType returns the supported candidate of smallest index, and that
\* is the type startListening records when the first construction succeeds.
C1_FirstSupportedChosen ==
    supported # {} =>
        /\ chooseMimeType = FirstSupported
        /\ (event.op = "getUserMedia" /\ event.how = "main")
               => /\ currentMimeType = FirstSupported
                  /\ enc[event.enc].mimeType = FirstSupported

\* C1 witness: the negotiation has run on a runtime whose first two
\* candidates are unsupported and that supports two later ones.
C1_Witness ==
    /\ supported = {"audio/mp4", "audio/wav"}
    /\ event.op = "getUserMedia" /\ event.how = "main"
    /\ currentMimeType = "audio/mp4"

\* C2: when no candidate is supported chooseMimeType returns "", and
\* startListening then constructs the encoder without a format option; if
\* that construction succeeds the encoder is recording and is the session's.
C2_NoneSupportedDefault ==
    supported = {} =>
        /\ chooseMimeType = ""
        /\ (event.op = "getUserMedia" /\ event.how = "main")
               => /\ currentMimeType = ""
                  /\ mediaRecorder = event.enc
                  /\ enc[event.enc] = [phase |-> "recording", mimeType |-> ""]
                  /\ status # StatusNotSupported

\* C2 witness: a granted start on a runtime without any supported candidate.
C2_Witness ==
    /\ supported = {}
    /\ event.op = "getUserMedia" /\ event.how = "main"
    /\ enc[1].phase = "recording"

\* C3: the buffer holds, in arrival order, exactly the fragments of non-zero
\* size delivered since it was cleared, and the asset assembled when the
\* settle delay ends is that sequence, its size the sum of the sizes.
C3_AssetIsConcatenation ==
    /\ audioChunks = SelectSeq(arrivals, nonEmpty)
    /\ \A i \in 1..Len(audioChunks) : audioChunks[i].size > 0
    /\ event.op = "settled"
          => /\ lastBlob.parts = SelectSeq(arrivals, nonEmpty)
             /\ blobSize(lastBlob.parts) = blobSize(arrivals)

\* C3 witness: an asset assembled after an empty fragment and a non-empty one.
C3_Witness ==
    /\ event.op = "settled"
    /\ \E i, j \in 1..Len(arrivals) : arrivals[i].size = 0 /\ arrivals[j].size > 0

\* C4: right after assembly, an asset below 800 bytes has sent no request and
\* shows the no-audio status and the two placeholders; an asset of 800 bytes
\* or more has its request in flight. A request is in flight only for an
\* encoder whose handler awaits the fetch.
C4_SmallAssetNotUploaded ==
    /\ \A e \in Encoders : request[e].sent <=> enc[e].phase = "uploading"
    /\ event.op = "settled" =>
          IF blobSize(lastBlob.parts) < 800
          THEN /\ ~request[event.enc].sent
               /\ enc[event.enc].phase = "done"
               /\ status = StatusNoAudio
               /\ question = TextNoVoice
               /\ answer = TextNoAnswer
          ELSE /\ request[event.enc].sent
               /\ enc[event.enc].phase = "uploading"

\* C4 witness: an assembled asset that holds audio but less than 800 bytes.
C4_Witness ==
    /\ event.op = "settled"
    /\ blobSize(lastBlob.parts) \in 1..799
    /\ status = StatusNoAudio

\* C5: once a successful response with both a question and an answer has been
\* processed, the transcript and the answer show them, status is idle, and
\* if the response names no detected language no annotation is displayed.
C5_ResultShownWithoutStaleTag ==
    (event.op = "fetch" /\ event.how.kind = "object"
         /\ event.how.question /\ event.how.answer)
    => /\ question = QuestionOf(event.enc)
       /\ answer = AnswerOf(event.enc)
       /\ status = StatusIdle
       /\ ~event.how.detected_language => tags = << >>

\* C6: once a failed fetch (a rejection of fetch or of res.json()) has been
\* processed, status is idle, the transcript shows "(server error)" and the
\* answer the could-not-connect text: two different texts, neither of them a
\* question or an answer the service returned.
C6_TransportFailureShown ==
    (event.op = "fetch" /\ event.how.kind = "fail")
    => /\ status = StatusIdle
       /\ question = TextServerError
       /\ answer = TextNoConnect
       /\ question # answer
       /\ \A e \in Encoders : question # QuestionOf(e) /\ answer # AnswerOf(e)
       /\ enc[event.enc].phase = "done"

\* C6 witness: the upload of the second attempt has failed while the
\* annotation of the first attempt's successful result is on display.
C6_Witness ==
    /\ event.op = "fetch" /\ event.how.kind = "fail"
    /\ event.enc = 2
    /\ tags # << >>

\* C7: once the device request of startListening has been rejected, status
\* is the microphone-blocked text, no encoder has been constructed by that
\* invocation, and the start control is visible and the stop control hidden.
C7_RejectionResetsControls ==
    (event.op = "getUserMedia" /\ event.how = "rejected")
    => /\ status = StatusMicBlocked
       /\ event.enc = 0
       /\ startBtn = Shown
       /\ stopBtn = Hidden

\* C8: once both encoder constructions of startListening have failed, status
\* is the recording-not-supported text, no encoder was started, and the
\* start control is visible and the stop control hidden.
C8_UnsupportedResetsControls ==
    (event.op = "getUserMedia" /\ event.how = "unsupported")
    => /\ status = StatusNotSupported
       /\ event.enc = 0
       /\ startBtn = Shown
       /\ stopBtn = Hidden

\* C9: a stopListening step taken while mediaRecorder is undefined or refers
\* to an inactive encoder shows the start control, hides the stop control,
\* sets status to idle and changes neither the buffer, the chosen type, the
\* transcript, the answer, the annotations, any encoder (no stop signal, no
\* onstop handler) nor the requests in flight.
C9_InactiveStopIsNoOp ==
    [][ ( /\ event'.op = "stopListening"
          /\ (mediaRecorder = 0 \/ recorderState(mediaRecorder) = "inactive") )
        => /\ startBtn' = Shown
           /\ stopBtn' = Hidden
           /\ status' = StatusIdle
           /\ UNCHANGED << audioChunks, currentMimeType, question, answer, tags,
                           mediaRecorder, enc, request, lastBlob, pendingStarts >>
      ]_vars

\* C9 witness: stopListening has run on an inactive encoder whose stop is
\* still being processed, with fragments in the buffer.
C9_Witness ==
    /\ event.op = "stopListening"
    /\ status = StatusIdle
    /\ event.enc # 0 /\ enc[event.enc].phase = "settling"
    /\ audioChunks # << >>

\* C10: after one start request that got its encoder and a stop request that
\* followed it, with no fragment delivered at all, once nothing is pending
\* the status is the no-audio text and no request was sent.
C10_ImmediateStopNoAudio ==
    ( /\ startsLeft = MaxStarts - 1
      /\ nEnc = 1
      /\ stopRequested
      /\ arrivals = << >>
      /\ Quiescent )
    => /\ status = StatusNoAudio
       /\ \A e \in Encoders : ~request[e].sent

\* C11: in every reachable state at most one encoder is recording, and an
\* encoder that is recording is the one held in the handle mediaRecorder, so
\* that stopListening can still stop it.
C11_OneRecordingHeld ==
    /\ Cardinality({e \in Encoders : enc[e].phase = "recording"}) <= 1
    /\ \A e \in Encoders : enc[e].phase = "recording" => mediaRecorder = e

\* C12: no failure leaves the UI stuck.  Once every handler of a stop has
\* run to its end (the stop event was delivered, the settle timer expired and
\* the fetch returned a JSON value or failed), status is no longer the
\* processing indicator; and the continuation of startListening that ends in
\* a permission denial or a construction failure does not leave status at
\* the listening indicator.
C12_NoStuckIndicator ==
    /\ (\A e \in Encoders :
            enc[e].phase \notin {"stopping", "settling", "uploading"})
           => status # StatusProcessing
    /\ (event.op = "getUserMedia" /\ event.how \in {"rejected", "unsupported"})
           => status # StatusListening

\* C13: the file of an upload is named "speech.<ext>", where ext is ogg for
\* a type tag containing "ogg", mp4 for one containing "mp4", mp3 for one
\* containing "mpeg" and webm for every other tag, the empty tag and
\* audio/wav included; the tag is one the negotiation or a fallback selects.
C13_FilenameByType ==
    LET expected == [t \in Candidates \cup {"", FallbackMime} |->
                        CASE t = "audio/ogg"  -> "speech.ogg"
                          [] t = "audio/mp4"  -> "speech.mp4"
                          [] t = "audio/mpeg" -> "speech.mp3"
                          [] OTHER            -> "speech.webm"]
    IN  (event.op = "settled" /\ enc[event.enc].phase = "uploading")
            => /\ lastBlob.type \in DOMAIN expected
               /\ request[event.enc].sent
               /\ request[event.enc].filename = expected[lastBlob.type]

\* C13 witness: an upload of a recording made on a runtime whose only
\* supported candidate is audio/mpeg.
C13_Witness ==
    /\ event.op = "settled"
    /\ lastBlob.type = "audio/mpeg"
    /\ request[event.enc].filename = "speech.mp3"

\* C14 as stated: in every payload sent, language is the value of the
\* input-language selector and output_language the value of the
\* output-language selector, "auto" and "same" standing in only when that
\* selector is absent, and neither field is empty.
C14_SelectorValuesSent ==
    (event.op = "settled" /\ request[event.enc].sent)
        => LET sel == event.how
               req == request[event.enc]
           IN  /\ req.language = IF sel.languageSelect = SelectorAbsent
                                 THEN "auto" ELSE sel.languageSelect
               /\ req.output_language = IF sel.outputLanguage = SelectorAbsent
                                        THEN "same" ELSE sel.outputLanguage
               /\ req.language # "" /\ req.output_language # ""

\* C14 amended: in every payload sent, language is the value of the
\* input-language selector when that selector exists and its value is not
\* empty and "auto" otherwise, output_language is the value of the
\* output-language selector when it exists and its value is not empty and
\* "same" otherwise, and neither field is empty.
C14_SelectorValuesOrDefaults ==
    (event.op = "settled" /\ request[event.enc].sent)
        => LET sel == event.how
               req == request[event.enc]
           IN  /\ req.language =
                      IF sel.languageSelect \in {SelectorAbsent, ""}
                      THEN "auto" ELSE sel.languageSelect
               /\ req.output_language =
                      IF sel.outputLanguage \in {SelectorAbsent, ""}
                      THEN "same" ELSE sel.outputLanguage
               /\ req.language # "" /\ req.output_language # ""

\* C14 witness: a payload sent while the input-language selector has the
\* empty value and the page has no output-language selector.
C14_Witness ==
    /\ event.op = "settled"
    /\ request[event.enc].sent
    /\ event.how.languageSelect = ""
    /\ event.how.outputLanguage = SelectorAbsent
    /\ request[event.enc].language = "auto"
    /\ request[event.enc].output_language = "same"

\* C15: startListening clears the transcript, the answer and the
\* detected-language annotation, and from a start until a stop is requested
\* for it (so before any result of its own exists) the display shows no
\* question, answer or annotation of an attempt, also when the response of
\* an earlier attempt arrives after the start.
C15_NoStaleResults ==
    (startsLeft < MaxStarts /\ ~stopRequested)
        => /\ \A e \in Encoders :
                  question # QuestionOf(e) /\ answer # AnswerOf(e)
           /\ tags = << >>

\* C16: for every JSON value the endpoint returns, the completion code does
\* not crash and sets status to idle; when the value has no question the
\* transcript shows "(no text)", when it has no answer the answer shows
\* "(no answer)", and when it has no detected_language no annotation is shown.
C16_AbsentFieldsDegrade ==
    (event.op = "fetch" /\ event.how.kind \in {"null", "object"})
        => LET r == event.how
           IN  /\ enc[event.enc].phase = "done"
               /\ status = StatusIdle
               /\ ~r.question => question = TextNoText
               /\ ~r.answer => answer = TextNoAnswer
               /\ ~r.detected_language => tags = << >>

\* C17: the buffer is assembled into an asset only by the handler of an
\* encoder whose stop event was delivered and whose settle delay has elapsed,
\* and a non-empty fragment that a stopped encoder delivers before its settle
\* delay expires is not dropped by the next step: it stays in the buffer
\* while that encoder awaits its assembly and is in the asset when the next
\* step is that assembly.
C17_LateFragmentsAssembled ==
    [][ /\ lastBlob' # lastBlob
            => /\ event'.op = "settled"
               /\ enc[event'.enc].phase = "settling"
               /\ lastBlob'.parts = audioChunks
        /\ ( /\ event.op = "ondataavailable"
             /\ enc[event.enc].phase \in {"stopping", "settling"}
             /\ nonEmpty(arrivals[Len(arrivals)]) )
            => LET late == audioChunks[Len(audioChunks)]
                   kept == IF enc'[event.enc].phase \in {"stopping", "settling"}
                           THEN audioChunks'
                           ELSE lastBlob'.parts
               IN  /\ late = arrivals[Len(arrivals)]
                   /\ \E i \in 1..Len(kept) : kept[i] = late
      ]_vars

\* C18: the session moves only along Idle -> Requesting -> Capturing ->
\* Finalizing -> Uploading -> Idle and the error edges.  An encoder starts
\* recording only in the continuation of a granted device request whose
\* session has not been stopped; a fragment enters the buffer only from an
\* encoder that is capturing or finalizing; an upload is issued only by the
\* assembly step of an encoder whose settle delay has ended; and an encoder
\* passes through its phases in this order only.
C18_SessionEdges ==
    [][ \A e \in Encoders :
          /\ (enc[e].phase = "none" /\ enc'[e].phase = "recording")
                 => /\ event'.op = "getUserMedia"
                    /\ pendingStarts > 0
                    /\ ~stopRequested
          /\ Len(audioChunks') > Len(audioChunks)
                 => /\ event'.op = "ondataavailable"
                    /\ enc[event'.enc].phase
                           \in {"recording", "stopping", "settling"}
          /\ (request'[e].sent /\ ~request[e].sent)
                 => /\ event'.op = "settled" /\ event'.enc = e
                    /\ enc[e].phase = "settling"
                    /\ lastBlob'.enc = e
          /\ enc'[e].phase # enc[e].phase
                 => << enc[e].phase, enc'[e].phase >> \in
                        { << "none", "recording" >>,
                          << "recording", "stopping" >>,
                          << "stopping", "settling" >>,
                          << "settling", "uploading" >>,
                          << "settling", "done" >>,
                          << "uploading", "done" >>,
                          << "uploading", "crashed" >> }
      ]_vars

\* C19: startListening constructs the encoder with the negotiated format (no
\* format when it is empty) and, only if that throws, with "audio/ogg"; when
\* it has started an encoder the recorded chosen MIME type is the format that
\* encoder was constructed with, and the asset assembled for an encoder is
\* tagged and named after the format of that encoder, unless the assembly
\* itself substituted the fallback tag.
C19_TypeIsEncoderFormat ==
    /\ (event.op = "getUserMedia" /\ event.how \in {"main", "ogg"})
           => /\ enc[event.enc].phase = "recording"
              /\ enc[event.enc].mimeType =
                     IF event.how = "main" THEN chooseMimeType ELSE FallbackMime
              /\ currentMimeType = enc[event.enc].mimeType
    /\ (event.op = "settled" /\ ~event.how.blobThrows)
           => /\ lastBlob.type = enc[event.enc].mimeType
              /\ request[event.enc].sent
                     => request[event.enc].filename
                            = "speech." \o extOf(enc[event.enc].mimeType)

\* C20: at most one element with the id detectedLang exists, and after a
\* response that carries a detected language was processed that element is
\* the annotation of this response, placed directly before the transcript.
C20_SingleAnnotation ==
    /\ Len(tags) <= 1
    /\ (event.op = "fetch" /\ event.how.kind = "object"
                           /\ event.how.detected_language)
           => tags = << "Detected language: " \o LanguageOf(event.enc) >>

\* C21: regenerateAnswer sends no request when the transcript field holds
\* nothing but white space, and then the answer field shows "(no text to
\* regenerate)"; when its request fails in transport or in parsing the answer
\* field shows "(server error)"; and neither step of regenerateAnswer changes
\* the transcript field, the status, the chunk buffer or an encoder.
C21_RegenerateContained ==
    [][ /\ regensLeft' < regensLeft
            => /\ (\A i \in 1..Len(question) : SubSeq(question, i, i) = " ")
                      => /\ regenRequests' = regenRequests
                         /\ answer' = TextNoRegen
               /\ UNCHANGED << question, status, audioChunks, enc,
                               mediaRecorder >>
        /\ Len(regenRequests') < Len(regenRequests)
            => /\ event'.how = "fail" => answer' = TextServerError
               /\ UNCHANGED << question, status, audioChunks, enc,
                               mediaRecorder >>
      ]_vars

\* C21 witness: regenerateAnswer has run on a transcript of white space only
\* and has sent nothing.
C21_Witness ==
    /\ event.op = "regenerateAnswer" /\ event.how = "empty"
    /\ question = BlankText
    /\ answer = TextNoRegen
    /\ regenRequests = << >>

\* C22: whenever an encoder is recording the UI shows it: the stop control
\* is visible, the start control is hidden and status is the listening
\* indicator.
C22_RecordingIsShown ==
    (\E e \in Encoders : enc[e].phase = "recording")
        => /\ stopBtn = Shown
           /\ startBtn = Hidden
           /\ status = StatusListening

\* C23: the asset assembled for a stop consists of the chunks of the encoder
\* that this stop finalized, and of all of them: the assembly of an encoder
\* yields an asset without a chunk of another encoder, and until an encoder
\* is assembled no step takes one of its chunks out of the buffer, the
\* assembly putting all of them into the asset.
C23_AssetOfFinalizedEncoder ==
    [][ \A e \in Encoders :
          LET ofE(c) == c.enc = e
              awaits(ph) == ph \in {"recording", "stopping", "settling"}
              mine == SelectSeq(audioChunks, ofE)
              kept == SelectSeq(IF awaits(enc'[e].phase) THEN audioChunks'
                                ELSE lastBlob'.parts, ofE)
          IN  /\ (enc[e].phase = "settling" /\ enc'[e].phase # "settling")
                     => /\ lastBlob'.enc = e
                        /\ \A i \in 1..Len(lastBlob'.parts) :
                               lastBlob'.parts[i].enc = e
              /\ awaits(enc[e].phase)
                     => /\ Len(mine) <= Len(kept)
                        /\ SubSeq(kept, 1, Len(mine)) = mine
      ]_vars

\* C24: a request to the transcription endpoint is issued only by the
\* assembly step of an encoder that a stop request found active, and at most
\* once for an encoder: an encoder is finalized only by stopListening on the
\* recording encoder in the handle, a request is issued only in the step
\* that ends its settle delay, an encoder whose request was issued never
\* returns to an earlier phase, and a stop request repeated while finalize,
\* settle or upload is pending changes no encoder and no request.
C24_OneRequestPerEncoder ==
    [][ \A e \in Encoders :
          /\ (enc[e].phase # "stopping" /\ enc'[e].phase = "stopping")
                 => /\ event'.op = "stopListening"
                    /\ mediaRecorder = e
                    /\ enc[e].phase = "recording"
          /\ (enc[e].phase # "settling" /\ enc'[e].phase = "settling")
                 => enc[e].phase = "stopping"
          /\ (request'[e].sent /\ request'[e] # request[e])
                 => /\ enc[e].phase = "settling"
                    /\ enc'[e].phase = "uploading"
                    /\ ~request[e].sent
          /\ enc[e].phase \in {"uploading", "done", "crashed"}
                 => /\ enc'[e].phase \in {"uploading", "done", "crashed"}
                    /\ ~(request'[e].sent /\ request'[e] # request[e])
          /\ ( /\ event'.op = "stopListening"
               /\ mediaRecorder = e
               /\ enc[e].phase \in {"stopping", "settling", "uploading"} )
                 => enc' = enc /\ request' = request
      ]_vars

\* C24 witness: stopListening has run again while the upload of the encoder
\* in the handle was in flight.
C24_Witness ==
    /\ event.op = "stopListening"
    /\ event.enc # 0
    /\ enc[event.enc].phase = "uploading"
    /\ request[event.enc].sent

\* C25: status reads "Idle" only when no work of a session is pending: then
\* no encoder is recording, no stop event or settle timer is outstanding and
\* no upload is in flight.
C25_IdleMeansNoWork ==
    status = StatusIdle
        => \A e \in Encoders :
               /\ enc[e].phase
                      \notin {"recording", "stopping", "settling", "uploading"}
               /\ ~request[e].sent

====
